---- MODULE Spec2Model ----
(***************************************************************************)
(* Model of snakeeis.py: bulk fitting of a directory of *.ism impedance    *)
(* datasets against one *.isfx circuit model, and aggregation of the fit   *)
(* results into one spreadsheet.                                           *)
(*                                                                         *)
(* The external fitting engine (zahner_analysis) and pandas are not part   *)
(* of the repository.  The engine is modelled by its outcome per call (a   *)
(* result JSON or a raised error); the pandas calls are modelled by what   *)
(* they compute on the values that reach them.                             *)
(***************************************************************************)
EXTENDS Integers, Sequences, FiniteSets, TLC

(***************************************************************************)
(* Bounds.                                                                 *)
(***************************************************************************)
\* largest number of entries in the dataset directory
MaxFiles == 2

(***************************************************************************)
(* Text.  A text value is a sequence of characters, so that parsing it as  *)
(* a number is a computation on its characters.                            *)
(***************************************************************************)
Digits == {"0", "7"}

\* dataset file stems: a plain name, a number, a number with a leading zero
Stems == {<<"a">>, <<"7">>, <<"0", "7">>}

\* extensions of directory entries; "*.ism" is the pattern of line 62
Exts == {"ism", "ISM", "txt"}

DigitVal(c) == IF c = "7" THEN 7 ELSE 0

\* the integer a string of digits denotes (what pd.to_numeric yields for it)
RECURSIVE ParseInt(_)
ParseInt(s) ==
  IF s = <<>> THEN 0
  ELSE 10 * ParseInt(SubSeq(s, 1, Len(s) - 1)) + DigitVal(s[Len(s)])

\* whether pd.to_numeric can parse the text
IsNumericText(s) == s # <<>> /\ \A i \in 1..Len(s) : s[i] \in Digits

(***************************************************************************)
(* Cells of a data frame, and leaves of a result JSON.                     *)
(***************************************************************************)
Str(s) == [t |-> "str", s |-> s, n |-> 0]
Num(n) == [t |-> "num", s |-> <<>>, n |-> n]
NaN == [t |-> "nan", s |-> <<>>, n |-> 0]
ObjCell == [t |-> "obj", s |-> <<>>, n |-> 0]

(***************************************************************************)
(* Result JSON of the engine (EisFittingResult.getFitResultJson): a nested *)
(* object, here a set of entries with distinct keys; an entry is a leaf or *)
(* a nested object.                                                        *)
(***************************************************************************)
Leaf(k, c) == [k |-> k, leaf |-> c, kids |-> {}]
Node(k, kids) == [k |-> k, leaf |-> ObjCell, kids |-> kids]

UniqueKeys(S) == \A e1, e2 \in S : e1.k = e2.k => e1 = e2

LeafCells == {Str(<<"7">>), Str(<<"a">>), Num(7)}

\* the nested part: the fitted element "R" of the model
SubObjects == {{Leaf("R", c)} : c \in LeafCells}

JsonEntries ==
  {Leaf(k, c) : k \in {"model", "overall"}, c \in LeafCells}
    \cup {Node("model", s) : s \in SubObjects}

JsonObjects == {S \in SUBSET JsonEntries : UniqueKeys(S)}

\* outcome of one engine call: a result, or a fit failure
Ok(json) == [kind |-> "ok", json |-> json]
FitFailure == [kind |-> "fit_error", json |-> {}]

\* the outcomes drawn in the batch specification
BatchOutcomes ==
  {FitFailure, Ok({Leaf("overall", Num(7))}),
   Ok({Node("model", {Leaf("R", Str(<<"7">>))})})}

\* the outcomes drawn in the table specification
TableOutcomes == {FitFailure} \cup {Ok(j) : j \in JsonObjects}

(***************************************************************************)
(* Errors.                                                                 *)
(***************************************************************************)
Error(type, msg) == [type |-> type, msg |-> msg]
NoError == Error("", "")
ModelPathError == Error("FileNotFoundError", "Model path does not exist")
DataPathError == Error("FileNotFoundError", "Impedance data path does not exist")
DirMissingError == Error("FileNotFoundError", "Directory path does not exist")
NotADirError == Error("NotADirectoryError", "Path is not a directory")
\* raised by the engine's importer when handed a path that does not exist
IsmImportError == Error("IsmImportError", "engine cannot read the dataset")
\* raised by the engine's fit
FitError == Error("FitError", "engine fit failed")
\* raised by pd.concat on an empty list of frames
ConcatError == Error("ValueError", "No objects to concatenate")
\* raised by DataFrame.to_excel
WriteError == Error("OSError", "cannot write spreadsheet")

(***************************************************************************)
(* Paths.  A directory entry is a file name [stem, ext]; a dataset path    *)
(* also says whether the file exists.                                      *)
(***************************************************************************)
FileNames == [stem : Stems, ext : Exts]

DataPath(f, exists) == [stem |-> f.stem, ext |-> f.ext, exists |-> exists]

\* pathlib's case folding of a name on a platform that ignores case
Lower(e) == IF e = "ISM" THEN "ism" ELSE e

\* line 62: whether z_data_dir.glob("*.ism") yields the entry; pathlib matches
\* case-insensitively on Windows and case-sensitively elsewhere
GlobMatches(f, ignoreCase) ==
  IF ignoreCase THEN Lower(f.ext) = "ism" ELSE f.ext = "ism"

\* the orders in which a set can be enumerated
Enumerations(S) ==
  {q \in [1..Cardinality(S) -> S] : \A i, j \in DOMAIN q : q[i] = q[j] => i = j}

\* glob with the pattern dropped: every entry of the directory is yielded
glob_all(files, ignoreCase) ==
  Enumerations({DataPath(f, TRUE) : f \in files})

\* line 62: the possible results of the glob, in filesystem iteration order
glob(files, ignoreCase) ==
  Enumerations({DataPath(f, TRUE) : f \in {g \in files : GlobMatches(g, ignoreCase)}})

(***************************************************************************)
(* fit_model, lines 10-37.  The result says what the call did: the error   *)
(* it raised (NoError if none), the imports and the fit it asked of the    *)
(* engine, and the pair it returned.                                       *)
(***************************************************************************)
NoPair == [name |-> <<>>, result |-> {}]

FitCall(conn, z_data_path, o) ==
  [conn |-> conn, stem |-> z_data_path.stem, ext |-> z_data_path.ext,
   ok |-> o.kind = "ok"]

\* fit_model with the fit failure swallowed: an empty result is returned
fit_model_continue(model_exists, z_data_path, fitting_conn, o) ==
  IF ~model_exists
  THEN [err |-> ModelPathError, imports |-> <<>>, fits |-> <<>>, ret |-> NoPair]
  ELSE [err |-> NoError, imports |-> <<"model", "data">>,
        fits |-> <<FitCall(fitting_conn, z_data_path, o)>>,
        ret |-> [name |-> z_data_path.stem, result |-> o.json]]

fit_model(model_exists, z_data_path, fitting_conn, o) ==
  IF ~model_exists
  THEN \* lines 28-29
       [err |-> ModelPathError, imports |-> <<>>, fits |-> <<>>, ret |-> NoPair]
  ELSE IF ~model_exists
  THEN \* lines 33-34: the second check reads model_path again
       [err |-> DataPathError, imports |-> <<"model">>, fits |-> <<>>,
        ret |-> NoPair]
  ELSE IF ~z_data_path.exists
  THEN \* line 32: IsmImport is handed the missing path
       [err |-> IsmImportError, imports |-> <<"model", "data">>, fits |-> <<>>,
        ret |-> NoPair]
  ELSE IF o.kind # "ok"
  THEN \* line 36: the fit raises
       [err |-> FitError, imports |-> <<"model", "data">>,
        fits |-> <<FitCall(fitting_conn, z_data_path, o)>>, ret |-> NoPair]
  ELSE \* lines 36-37
       [err |-> NoError, imports |-> <<"model", "data">>,
        fits |-> <<FitCall(fitting_conn, z_data_path, o)>>,
        ret |-> [name |-> z_data_path.stem, result |-> o.json]]

(***************************************************************************)
(* dict(results), line 64: a later pair replaces the value of an earlier   *)
(* pair with the same key and keeps the earlier position.                  *)
(***************************************************************************)
\* a mapping in which the first pair of a key wins
RECURSIVE dict_first_wins(_)
dict_first_wins(pairs) ==
  IF pairs = <<>> THEN <<>>
  ELSE LET init == dict_first_wins(SubSeq(pairs, 1, Len(pairs) - 1))
           p == pairs[Len(pairs)]
       IN IF \E i \in DOMAIN init : init[i].name = p.name
          THEN init
          ELSE Append(init, p)

RECURSIVE dict(_)
dict(pairs) ==
  IF pairs = <<>> THEN <<>>
  ELSE LET init == dict(SubSeq(pairs, 1, Len(pairs) - 1))
           p == pairs[Len(pairs)]
       IN IF \E i \in DOMAIN init : init[i].name = p.name
          THEN [i \in DOMAIN init |-> IF init[i].name = p.name THEN p ELSE init[i]]
          ELSE Append(init, p)

(***************************************************************************)
(* Data frames: a sequence of column names and a sequence of rows, each    *)
(* row a function from the column names to cells.                          *)
(***************************************************************************)
EmptyFrame == [columns |-> <<>>, rows |-> <<>>]

Range(q) == {q[i] : i \in DOMAIN q}

RECURSIVE SetToSeq(_)
SetToSeq(S) ==
  IF S = {} THEN <<>>
  ELSE LET x == CHOOSE y \in S : TRUE IN <<x>> \o SetToSeq(S \ {x})

\* the flattened records of a nested object: nested keys joined with "."
RECURSIVE Flatten(_, _)
Flatten(obj, prefix) ==
  UNION {IF e.leaf.t = "obj"
         THEN Flatten(e.kids, prefix \o e.k \o ".")
         ELSE {[col |-> prefix \o e.k, cell |-> e.leaf]} : e \in obj}

\* line 83: pd.json_normalize of one result object, a frame of one row
json_normalize(json) ==
  LET flat == Flatten(json, "")
      cols == {x.col : x \in flat}
  IN [columns |-> SetToSeq(cols),
      rows |-> <<[c \in cols |-> (CHOOSE x \in flat : x.col = c).cell]>>]

\* line 84: DataFrame.insert(0, column, value).  The engine's result has the top
\* level keys "model" and "overall", never "filename", so the column is new.
insert(frame, column, value) ==
  [columns |-> <<column>> \o frame.columns,
   rows |-> [i \in DOMAIN frame.rows |->
               [c \in Range(frame.columns) \cup {column} |->
                  IF c = column THEN value ELSE frame.rows[i][c]]]]

\* line 85: pd.to_numeric(column, errors="ignore"): the column converted when
\* every value of it parses, the column as it was otherwise
Parses(c) == c.t \in {"num", "nan"} \/ (c.t = "str" /\ IsNumericText(c.s))

\* a conversion that converts nothing
to_numeric_noop(column) == column

to_numeric(column) ==
  IF \A i \in DOMAIN column : Parses(column[i])
  THEN [i \in DOMAIN column |->
          IF column[i].t = "str" THEN Num(ParseInt(column[i].s)) ELSE column[i]]
  ELSE column

\* line 85: DataFrame.apply(pd.to_numeric, errors="ignore"), column by column
apply_to_numeric(frame) ==
  [columns |-> frame.columns,
   rows |-> [i \in DOMAIN frame.rows |->
               [c \in Range(frame.columns) |->
                  to_numeric([j \in DOMAIN frame.rows |-> frame.rows[j][c]])[i]]]]

\* lines 83-86
gen_result_table_row(filename, result_output) ==
  apply_to_numeric(insert(json_normalize(result_output), "filename", Str(filename)))

\* the columns of the frames in order of first appearance
RECURSIVE UnionColumns(_)
UnionColumns(frames) ==
  IF frames = <<>> THEN <<>>
  ELSE LET init == UnionColumns(SubSeq(frames, 1, Len(frames) - 1))
           last == frames[Len(frames)].columns
       IN init \o SelectSeq(last, LAMBDA c : c \notin Range(init))

RECURSIVE ConcatRows(_, _)
ConcatRows(frames, cols) ==
  IF frames = <<>> THEN <<>>
  ELSE LET f == frames[1]
       IN [i \in DOMAIN f.rows |->
             [c \in cols |-> IF c \in Range(f.columns) THEN f.rows[i][c] ELSE NaN]]
          \o ConcatRows(Tail(frames), cols)

\* line 119: pd.concat(frames); it raises on an empty list
concat(frames) ==
  IF frames = <<>>
  THEN [err |-> ConcatError, frame |-> EmptyFrame]
  ELSE [err |-> NoError,
        frame |-> [columns |-> UnionColumns(frames),
                   rows |-> ConcatRows(frames, Range(UnionColumns(frames)))]]

\* lines 119-121: the table of a mapping
build_table(mapping) ==
  concat([i \in DOMAIN mapping |->
            gen_result_table_row(mapping[i].name, mapping[i].result)])

\* line 122: the file DataFrame.to_excel writes
to_excel(table, output_filename) ==
  [dir |-> "z_data_dir", name |-> output_filename \o ".xlsx", index |-> FALSE,
   frame |-> table]

NoFile == [dir |-> "", name |-> "", index |-> FALSE, frame |-> EmptyFrame]

(***************************************************************************)
(* lines 54-57: the directory checks of fit_directory_of_models.           *)
(***************************************************************************)
\* the directory checks without the is_dir test of line 56
check_dir_exists_only(kind) ==
  IF kind = "missing" THEN DirMissingError ELSE NoError

check_dir(kind) ==
  IF kind = "missing" THEN DirMissingError
  ELSE IF kind # "dir" THEN NotADirError
  ELSE NoError

\* line 11: the session the default argument holds, built when the module loads
DefaultSession == "default"

\* line 59: the session fit_directory_of_models builds
new_session(existing) == "batch"

(***************************************************************************)
(* State.                                                                  *)
(***************************************************************************)
VARIABLES
  entry,            \* the function called: cli, fit_directory_of_models, fit_model
  model_exists,     \* whether model_path exists
  dirKind,          \* z_data_dir: "missing", "file" or "dir"
  dirFiles,         \* the entries of z_data_dir
  ignoreCase,       \* whether the platform's glob ignores case
  z_data_path,      \* the dataset path of a direct call of fit_model
  output_filename,  \* the --output_filename option
  pc,               \* position in the run
  err,              \* the error raised, NoError if none
  sessions,         \* the EisFitting objects constructed so far
  fitting_conn,     \* the local variable of line 59
  todo,             \* the paths the glob has still to yield
  results,          \* the list of line 60
  imports,          \* the imports asked of the engine, in order
  fitCalls,         \* the fit calls made to the engine, in order
  mapping,          \* the dict of line 64
  table,            \* the frame of line 119
  output            \* the spreadsheet file written, NoFile if none

inputs ==
  <<entry, model_exists, dirKind, dirFiles, ignoreCase, z_data_path, output_filename>>

vars ==
  <<entry, model_exists, dirKind, dirFiles, ignoreCase, z_data_path,
    output_filename, pc, err, sessions, fitting_conn, todo, results, imports,
    fitCalls, mapping, table, output>>

Directories(names) == {S \in SUBSET names : Cardinality(S) <= MaxFiles}

\* the state when the module has been loaded and nothing has been called
Loaded ==
  /\ pc = "start"
  /\ err = NoError
  /\ sessions = {DefaultSession}
  /\ fitting_conn = ""
  /\ todo = <<>>
  /\ results = <<>>
  /\ imports = <<>>
  /\ fitCalls = <<>>
  /\ mapping = <<>>
  /\ table = EmptyFrame
  /\ output = NoFile

Init ==
  /\ entry \in {"cli", "fit_directory_of_models", "fit_model"}
  /\ model_exists \in BOOLEAN
  /\ dirKind \in (IF entry = "fit_model" THEN {"missing"}
                  ELSE {"missing", "file", "dir"})
  /\ dirFiles \in (IF dirKind = "dir" THEN Directories(FileNames) ELSE {{}})
  /\ ignoreCase \in (IF dirKind = "dir" THEN BOOLEAN ELSE {FALSE})
  /\ z_data_path \in (IF entry = "fit_model"
                      THEN {DataPath(f, e) : f \in FileNames, e \in BOOLEAN}
                      ELSE {DataPath([stem |-> <<"a">>, ext |-> "ism"], FALSE)})
  /\ output_filename \in (IF entry = "cli" THEN {"output", "fits"} ELSE {"output"})
  /\ Loaded

\* the runs the table claims are about: cli on a directory of *.ism files
InitTable ==
  /\ entry = "cli"
  /\ model_exists = TRUE
  /\ dirKind = "dir"
  /\ dirFiles \in Directories({f \in FileNames : f.ext = "ism"})
  /\ ignoreCase = FALSE
  /\ z_data_path = DataPath([stem |-> <<"a">>, ext |-> "ism"], FALSE)
  /\ output_filename = "output"
  /\ Loaded

(***************************************************************************)
(* Steps of fit_directory_of_models, lines 54-64.                          *)
(***************************************************************************)
CheckDir ==
  /\ pc = "start"
  /\ entry # "fit_model"
  /\ err' = check_dir(dirKind)
  /\ pc' = IF check_dir(dirKind) = NoError THEN "checked" ELSE "error"
  /\ UNCHANGED <<inputs, sessions, fitting_conn, todo, results, imports,
                 fitCalls, mapping, table, output>>

OpenSession ==
  /\ pc = "checked"
  /\ fitting_conn' = new_session(sessions)
  /\ sessions' = sessions \cup {new_session(sessions)}
  /\ pc' = "glob"
  /\ UNCHANGED <<inputs, err, todo, results, imports, fitCalls, mapping, table,
                 output>>

Glob ==
  /\ pc = "glob"
  /\ todo' \in glob(dirFiles, ignoreCase)
  /\ pc' = "loop"
  /\ UNCHANGED <<inputs, err, sessions, fitting_conn, results, imports,
                 fitCalls, mapping, table, output>>

\* one iteration of the comprehension of lines 60-63
FitNext(o) ==
  /\ pc = "loop"
  /\ todo # <<>>
  /\ LET r == fit_model(model_exists, Head(todo), fitting_conn, o)
     IN /\ imports' = imports \o r.imports
        /\ fitCalls' = fitCalls \o r.fits
        /\ err' = r.err
        /\ pc' = IF r.err = NoError THEN "loop" ELSE "error"
        /\ results' = IF r.err = NoError THEN Append(results, r.ret) ELSE results
        /\ todo' = IF r.err = NoError THEN Tail(todo) ELSE todo
  /\ UNCHANGED <<inputs, sessions, fitting_conn, mapping, table, output>>

\* line 64
BuildDict ==
  /\ pc = "loop"
  /\ todo = <<>>
  /\ mapping' = dict(results)
  /\ pc' = IF entry = "cli" THEN "returned" ELSE "done"
  /\ UNCHANGED <<inputs, err, sessions, fitting_conn, todo, results, imports,
                 fitCalls, table, output>>

(***************************************************************************)
(* Steps of cli after line 118.                                            *)
(***************************************************************************)
\* lines 119-121
BuildTable ==
  /\ pc = "returned"
  /\ err' = build_table(mapping).err
  /\ table' = build_table(mapping).frame
  /\ pc' = IF build_table(mapping).err = NoError THEN "table" ELSE "error"
  /\ UNCHANGED <<inputs, sessions, fitting_conn, todo, results, imports,
                 fitCalls, mapping, output>>

\* line 122; the write may fail
WriteExcel(ok) ==
  /\ pc = "table"
  /\ output' = IF ok THEN to_excel(table, output_filename) ELSE output
  /\ err' = IF ok THEN err ELSE WriteError
  /\ pc' = IF ok THEN "done" ELSE "error"
  /\ UNCHANGED <<inputs, sessions, fitting_conn, todo, results, imports,
                 fitCalls, mapping, table>>

(***************************************************************************)
(* A direct call of fit_model with the default session, lines 10-37.       *)
(***************************************************************************)
CallFitModel(o) ==
  /\ pc = "start"
  /\ entry = "fit_model"
  /\ LET r == fit_model(model_exists, z_data_path, DefaultSession, o)
     IN /\ imports' = r.imports
        /\ fitCalls' = r.fits
        /\ err' = r.err
        /\ pc' = IF r.err = NoError THEN "done" ELSE "error"
        /\ results' = IF r.err = NoError THEN <<r.ret>> ELSE results
  /\ UNCHANGED <<inputs, sessions, fitting_conn, todo, mapping, table, output>>

Next ==
  \/ CheckDir
  \/ OpenSession
  \/ Glob
  \/ \E o \in BatchOutcomes : FitNext(o)
  \/ BuildDict
  \/ BuildTable
  \/ \E ok \in BOOLEAN : WriteExcel(ok)
  \/ \E o \in BatchOutcomes : CallFitModel(o)

Spec == Init /\ [][Next]_vars

NextTable ==
  \/ CheckDir
  \/ OpenSession
  \/ Glob
  \/ \E o \in TableOutcomes : FitNext(o)
  \/ BuildDict
  \/ BuildTable
  \/ \E ok \in BOOLEAN : WriteExcel(ok)

SpecTable == InitTable /\ [][NextTable]_vars

(***************************************************************************)
(* Vocabulary of the properties.                                           *)
(***************************************************************************)
\* the entries of the directory that "*.ism" names on this platform
IsmFiles ==
  {f \in dirFiles : f.ext = "ism" \/ (ignoreCase /\ f.ext = "ISM")}

DistinctStems == \A f, g \in IsmFiles : f.stem = g.stem => f = g

Batch == entry \in {"cli", "fit_directory_of_models"}

Terminal == pc \in {"done", "error"}

\* fit_directory_of_models has returned its mapping
Returned ==
  /\ Batch
  /\ \/ pc \in {"returned", "table", "done"}
     \/ pc = "error" /\ err \in {ConcatError, WriteError}

\* the value row i of the mapping holds under column c before any coercion
Original(i, c) ==
  IF c = "filename" THEN Str(mapping[i].name)
  ELSE LET hit == {x \in Flatten(mapping[i].result, "") : x.col = c}
       IN IF hit = {} THEN NaN ELSE (CHOOSE x \in hit : TRUE).cell

NumericText(c) == c.t = "str" /\ IsNumericText(c.s)
OtherText(c) == c.t = "str" /\ ~IsNumericText(c.s)

Written == output # NoFile
Sheet == output.frame
SheetColumns == Range(Sheet.columns)

(***************************************************************************)
(* C1.  Fail-fast with no partial output: when the fit of one dataset      *)
(* fails in a run of cli, the run ends in the error state with that        *)
(* error, the failed fit is the last fit call ever made, and no            *)
(* spreadsheet is written; a spreadsheet is written only after every       *)
(* enumerated dataset has been fitted successfully.                        *)
(***************************************************************************)
C1_FailFast ==
  entry = "cli" =>
    /\ \A i \in DOMAIN fitCalls :
         ~fitCalls[i].ok =>
           /\ i = Len(fitCalls)
           /\ pc = "error"
           /\ err = FitError
           /\ output = NoFile
    /\ (pc \in {"table", "done"} \/ Written) =>
         /\ todo = <<>>
         /\ Len(fitCalls) = Cardinality(IsmFiles)
         /\ \A i \in DOMAIN fitCalls : fitCalls[i].ok
         /\ \A f \in IsmFiles :
              \E i \in DOMAIN fitCalls :
                fitCalls[i].stem = f.stem /\ fitCalls[i].ext = f.ext

\* the first of two datasets failed: a later dataset is left unfitted
C1_Witness ==
  /\ entry = "cli"
  /\ pc = "error"
  /\ err = FitError
  /\ Len(todo) >= 2
  /\ Len(fitCalls) = 1

(***************************************************************************)
(* C2.  Missing model path: cli on an existing directory with a model      *)
(* path that does not exist ends with the model path-not-found error,      *)
(* whatever the number of matching datasets (zero included), with no       *)
(* dataset loaded and no fit call made.                                    *)
(***************************************************************************)
C2_MissingModelRaises ==
  (entry = "cli" /\ dirKind = "dir" /\ ~model_exists /\ Terminal) =>
    /\ err = ModelPathError
    /\ fitCalls = <<>>
    /\ "data" \notin Range(imports)

(***************************************************************************)
(* C3.  Loader existence checks: fit_model fails with the model-path       *)
(* error when the model is missing and with the dataset-path error when    *)
(* the model exists and the dataset is missing; the fit is invoked in      *)
(* neither case.                                                           *)
(***************************************************************************)
C3_LoaderChecks ==
  (entry = "fit_model" /\ Terminal) =>
    /\ ~model_exists => (err = ModelPathError /\ fitCalls = <<>>)
    /\ (model_exists /\ ~z_data_path.exists) =>
         (err = DataPathError /\ fitCalls = <<>>)

(***************************************************************************)
(* C4.  Empty batch does not crash the writer: when cli runs on a          *)
(* directory with no matching dataset, building and writing the table      *)
(* raises nothing of its own (only the write to disk can fail).            *)
(***************************************************************************)
C4_EmptyBatchWrites ==
  (entry = "cli" /\ dirKind = "dir" /\ IsmFiles = {} /\ pc = "error") =>
    err = WriteError

(***************************************************************************)
(* C5.  Single fitting session: when a batch run has completed, exactly    *)
(* one fitting session object has been constructed and every fit call      *)
(* used it.                                                                *)
(***************************************************************************)
C5_SingleSession ==
  (Batch /\ pc = "done") =>
    /\ Cardinality(sessions) = 1
    /\ \A i \in DOMAIN fitCalls : fitCalls[i].conn = fitting_conn

(***************************************************************************)
(* C6.  Batch mapping size: when fit_directory_of_models returns for a     *)
(* directory whose N matching files have distinct stems, the mapping has   *)
(* exactly N entries, its keys are exactly those stems, and each file was  *)
(* fitted exactly once; with no matching file the function returns the     *)
(* empty mapping and never ends in an error.                               *)
(***************************************************************************)
C6_MappingSize ==
  /\ (Returned /\ DistinctStems) =>
       /\ Len(mapping) = Cardinality(IsmFiles)
       /\ {mapping[i].name : i \in DOMAIN mapping} = {f.stem : f \in IsmFiles}
       /\ Len(fitCalls) = Cardinality(IsmFiles)
       /\ \A f \in IsmFiles :
            Cardinality({i \in DOMAIN fitCalls :
                           fitCalls[i].stem = f.stem /\ fitCalls[i].ext = f.ext}) = 1
  /\ (entry = "fit_directory_of_models" /\ dirKind = "dir" /\ IsmFiles = {}) =>
       /\ pc # "error"
       /\ pc = "done" => mapping = <<>>

\* two files with distinct stems have been fitted and the mapping returned
C6_Witness ==
  /\ Returned
  /\ DistinctStems
  /\ Cardinality(IsmFiles) = 2
  /\ Len(mapping) = 2

(***************************************************************************)
(* C7.  Directory validation: a missing directory path ends the batch      *)
(* with FileNotFoundError and a path that is not a directory ends it with  *)
(* NotADirectoryError, in both cases with no session created by the batch  *)
(* and no fit call made.                                                   *)
(***************************************************************************)
C7_DirectoryValidation ==
  (Batch /\ pc # "start") =>
    /\ dirKind = "missing" =>
         /\ pc = "error"
         /\ err = DirMissingError
         /\ err.type = "FileNotFoundError"
    /\ dirKind = "file" =>
         /\ pc = "error"
         /\ err = NotADirError
         /\ err.type = "NotADirectoryError"
    /\ dirKind # "dir" =>
         /\ sessions = {DefaultSession}
         /\ fitting_conn = ""
         /\ fitCalls = <<>>
         /\ imports = <<>>

\* the batch was called on a path that is a file and has ended
C7_Witness ==
  /\ Batch
  /\ dirKind = "file"
  /\ pc = "error"

(***************************************************************************)
(* C8.  Numeric coercion in the written table.  The claim as stated: a     *)
(* column whose values are numeric strings in every row is numeric in      *)
(* every row, and a column holding a non-numeric text in some row is       *)
(* unconverted in all rows.                                                *)
(***************************************************************************)
C8_PerColumnCoercion ==
  Written =>
    \A c \in SheetColumns :
      /\ (\A i \in DOMAIN mapping : NumericText(Original(i, c))) =>
           \A i \in DOMAIN mapping :
             Sheet.rows[i][c] = Num(ParseInt(Original(i, c).s))
      /\ (\E i \in DOMAIN mapping : OtherText(Original(i, c))) =>
           \A i \in DOMAIN mapping : Sheet.rows[i][c] = Original(i, c)

(***************************************************************************)
(* C8 as amended.  Coercion is decided for each row on its own: in the     *)
(* written table a value that is a numeric string is the number it         *)
(* denotes, whatever the other rows hold in that column, and a value that  *)
(* is a non-numeric text is that text unchanged; so a column of numeric    *)
(* strings in every row is numeric in every row.  Building the table of a  *)
(* non-empty mapping raises nothing.                                       *)
(***************************************************************************)
C8_PerRowCoercion ==
  /\ Written =>
       \A c \in SheetColumns :
         \A i \in DOMAIN mapping :
           /\ NumericText(Original(i, c)) =>
                Sheet.rows[i][c] = Num(ParseInt(Original(i, c).s))
           /\ OtherText(Original(i, c)) =>
                Sheet.rows[i][c] = Original(i, c)
  /\ (Returned /\ mapping # <<>> /\ pc = "error") => err = WriteError

\* a written column that holds a numeric string in one row and a non-numeric
\* text in another
C8_Witness ==
  /\ Written
  /\ \E c \in SheetColumns :
       /\ \E i \in DOMAIN mapping : NumericText(Original(i, c))
       /\ \E i \in DOMAIN mapping : OtherText(Original(i, c))

(***************************************************************************)
(* C9.  Aggregate table shape: the written table has one row per mapping   *)
(* entry, its first column is filename and holds each row's dataset name   *)
(* exactly, its columns are the union of the rows' flattened keys, a row   *)
(* lacking a key has a missing cell there, and the file is                 *)
(* <dataset directory>/<output_filename>.xlsx, written without an index.   *)
(***************************************************************************)
C9_TableShape ==
  Written =>
    /\ Len(Sheet.rows) = Len(mapping)
    /\ Sheet.columns[1] = "filename"
    /\ \A i \in DOMAIN mapping : Sheet.rows[i]["filename"] = Str(mapping[i].name)
    /\ SheetColumns =
         {"filename"} \cup
           UNION {{x.col : x \in Flatten(mapping[i].result, "")} : i \in DOMAIN mapping}
    /\ \A i \in DOMAIN mapping :
         \A c \in SheetColumns \ {"filename"} :
           c \notin {x.col : x \in Flatten(mapping[i].result, "")} =>
             Sheet.rows[i][c] = NaN
    /\ output.dir = "z_data_dir"
    /\ output.name = output_filename \o ".xlsx"
    /\ output.index = FALSE

(***************************************************************************)
(* C10.  Last-write-wins on stem collision: in the mapping returned by     *)
(* the batch every collected name has a single entry, whose value is the   *)
(* result of the last collected pair of that name, and the batch does not  *)
(* end in an error once every pair is collected.                           *)
(***************************************************************************)
C10_LastWriteWins ==
  /\ Returned =>
       /\ \A j \in DOMAIN results :
            Cardinality({i \in DOMAIN mapping : mapping[i].name = results[j].name}) = 1
       /\ \A i \in DOMAIN mapping :
            \E j \in DOMAIN results :
              /\ results[j] = mapping[i]
              /\ \A k \in DOMAIN results :
                   results[k].name = mapping[i].name => k <= j
  /\ (entry = "fit_directory_of_models" /\ pc = "error"
        /\ dirKind = "dir" /\ model_exists) =>
       (err = FitError /\ todo # <<>>)

\* two collected pairs share a name and differ in their results
C10_Witness ==
  /\ Returned
  /\ \E i, j \in DOMAIN results :
       /\ i < j
       /\ results[i].name = results[j].name
       /\ results[i].result # results[j].result

====
